---------------------------- MODULE Spec2Model ----------------------------
(***************************************************************************)
(* A model of madam's core: the two asset storages (InMemoryStorage and    *)
(* FileStorage, src/madam/core.py) driven side by side, the read and       *)
(* write functions with their processor registries, Pipeline, Asset, the   *)
(* shelf handle of FileStorage, and the versioned AssetStorage of          *)
(* src/adam/core.py.                                                       *)
(***************************************************************************)
EXTENDS Naturals, Integers, Sequences, FiniteSets, TLC

\* Largest identity the FileStorage counter may hand out in a run.
MaxId == 3

\* Tags that callers use.
Tags == {"x", "y"}

\* Python's None, where it is a string-valued field.
None == "None"

-----------------------------------------------------------------------------
(* Byte streams.  A stream's bytes are abstracted to what the processors    *)
(* can tell apart: the container kind, the payload and, per metadata        *)
(* format, the embedded layer ("absent" when the stream carries none).      *)

Kinds == {"jpeg", "png", "unknown"}
MetaFormats == {"exif", "xmp"}
MetaValues == {"m1", "m2"}
Absent == "absent"

NoLayers == [f \in MetaFormats |-> Absent]

Bytes(kind, body, layers) == [kind |-> kind, body |-> body, layers |-> layers]

\* io.BytesIO(): the stream of no bytes at all.
EmptyBytes == Bytes("unknown", "", NoLayers)

-----------------------------------------------------------------------------
(* Asset *)

\* _freeze_dict: the same mapping, read-only; nested mappings are frozen
\* recursively and keep their entries.
_freeze_dict(dictionary) == dictionary

\* Asset.__init__(essence, **metadata)
Asset(essence, metadata) ==
    [essence_data |-> essence,
     metadata |-> _freeze_dict(IF "mime_type" \in DOMAIN metadata
                               THEN metadata
                               ELSE metadata @@ ("mime_type" :> None))]

\* Asset.__eq__: the two __dict__ are equal.
AssetEq(a, b) == a.essence_data = b.essence_data /\ a.metadata = b.metadata

\* The assets the storage operations are called with.
StoreAssets ==
    { Asset(Bytes("png", "b0", NoLayers), ("mime_type" :> "image/png")),
      Asset(Bytes("png", "b0", NoLayers), <<>>) }

\* The tags argument of add: <<>> is an omitted (None) argument, <<s>> the set s.
TagArgs == {<<>>} \cup { <<s>> : s \in SUBSET Tags }


-----------------------------------------------------------------------------
(* State *)

VARIABLES
    tags_by_asset,      \* InMemoryStorage.tags_by_asset: asset -> tags
    shelf,              \* the shelve file under FileStorage.path: key -> <<asset, tags>>
    _asset_id_sequence, \* FileStorage._asset_id_sequence: the value next() returns
    assigned,           \* history: every <<identity, asset>> FileStorage.add allocated
    tagged,             \* history: the tags each asset was last added with, for
                        \* the assets added and not removed since
    call,               \* the storage call made last, on both backends
    memResult,          \* how that call ended on the InMemoryStorage
    fileResult          \* how that call ended on the FileStorage

storageVars == <<tags_by_asset, shelf, _asset_id_sequence, assigned, tagged, call,
                 memResult, fileResult>>

VARIABLES
    processors,                    \* madam.core.processors, in registration order
    metadata_processors_by_format, \* the formats of that dict, in insertion order
    rdFile,                        \* the file the last read was called with
    rdStatus,                      \* "idle", "returned", or the error read raised
    rdAsset,                       \* <<asset>> when read returned one, else <<>>
    rdCalls,                       \* the processor calls the last read made
    wrAsset,                       \* <<asset>> that write was called with, else <<>>
    wrCalls,                       \* the combine calls that write made
    written                        \* <<bytes>> that write put out, else <<>>

rwVars == <<processors, metadata_processors_by_format, rdFile, rdStatus, rdAsset,
            rdCalls, wrAsset, wrCalls, written>>

VARIABLES
    adam_assets,   \* adam's AssetStorage.assets: id -> the list of its versions
    stored,        \* history: per id, the snapshots stored since its last delete
    erased,        \* history: the ids deleted so far
    adamCall       \* the call made last on the versioned storage, and its result

versionedVars == <<adam_assets, stored, erased, adamCall>>

VARIABLES
    operators,     \* Pipeline.operators, in the order added
    gen_assets,    \* the generator process(*assets) returned: its assets tuple,
    gen_at,        \* the index of the asset its outer loop takes next,
    gen_state,     \* "none" (no generator yet), "suspended" or "finished"
    yielded,       \* the results the consumer got from the generator so far
    seen,          \* history: Pipeline.operators as it was at each of those results
    applied,       \* history: the operator calls made, as [k, operator]
    failed,        \* history: <<>> or <<the failure that ended the generator>>
    outcome        \* how the last next(generator) ended

pipelineVars == <<operators, gen_assets, gen_at, gen_state, yielded, seen, applied,
                  failed, outcome>>

VARIABLES
    asset_dict,    \* the __dict__ of an Asset object a caller holds
    constructed,   \* history: <<that __dict__ as Asset.__init__ left it>>
    setResult,     \* how the last attribute assignment on the object ended
    relayered      \* <<the asset read's loop body made of the object>>, else <<>>

assetVars == <<asset_dict, constructed, setResult, relayered>>

VARIABLES
    handles,       \* the handles open on the shelf of the FileStorage
    inside,        \* <<the FileStorage operation that is inside its with block>>
    left           \* the operation that ended last, and how it left the block

handleVars == <<handles, inside, left>>

VARIABLES
    it_query,      \* <<the __iter__ or filter_by_tags call made last on both backends>>
    mem_iter,      \* the iterator the InMemoryStorage returned: its list and position
    file_iter,     \* the iterator the FileStorage returned: its list and position
    mem_got,       \* what the consumer has got from mem_iter so far
    file_got,      \* what the consumer has got from file_iter so far
    it_outcome,    \* how the last next() ended on each of the two iterators
    matching_then, \* history: the assets stored and matching when the call was made
    stored_then    \* history: the assets stored at the time of each next() so far

iterVars == <<it_query, mem_iter, file_iter, mem_got, file_got, it_outcome,
              matching_then, stored_then>>

\* What the operations of each part leave alone.
outsideStorage ==
    <<rwVars, versionedVars, pipelineVars, assetVars, handleVars, iterVars>>
outsideRW ==
    <<storageVars, versionedVars, pipelineVars, assetVars, handleVars, iterVars>>
outsideVersioned ==
    <<storageVars, rwVars, pipelineVars, assetVars, handleVars, iterVars>>
outsidePipeline ==
    <<storageVars, rwVars, versionedVars, assetVars, handleVars, iterVars>>
outsideAsset ==
    <<storageVars, rwVars, versionedVars, pipelineVars, handleVars, iterVars>>
outsideHandles == <<rwVars, versionedVars, pipelineVars, assetVars, iterVars>>
outsideIter == <<rwVars, versionedVars, pipelineVars, assetVars, handleVars>>

\* ValueError is what both backends raise for an asset they do not hold.
Ok == "ok"
ValueError == "ValueError"

-----------------------------------------------------------------------------
(* Keys of the shelf: str(asset_id), the decimal digits of the identity. *)

RECURSIVE str(_)
str(n) == IF n < 10 THEN <<n>> ELSE str(n \div 10) \o <<n % 10>>

RECURSIVE int(_)
int(s) == IF Len(s) = 1 THEN s[1]
          ELSE 10 * int(SubSeq(s, 1, Len(s) - 1)) + s[Len(s)]

RECURSIVE max(_)
max(S) == LET x == CHOOSE y \in S : TRUE
          IN  IF S = {x} THEN x
              ELSE LET m == max(S \ {x}) IN IF x > m THEN x ELSE m

\* m without key k (del m[k]).
Del(m, k) == [j \in DOMAIN m \ {k} |-> m[j]]

-----------------------------------------------------------------------------
(* InMemoryStorage *)

\* `if not tags: tags = set()`
TagsOrEmpty(tags) == IF tags = <<>> \/ tags[1] = {} THEN {} ELSE tags[1]

MemContains(asset) == \E a \in DOMAIN tags_by_asset : AssetEq(a, asset)

\* The key of the dict that equals asset.
MemKey(asset) == CHOOSE a \in DOMAIN tags_by_asset : AssetEq(a, asset)

\* MemAdd that leaves the tags of an asset it already holds as they were.
MemAddKeepsTags(asset, tags) ==
    /\ tags_by_asset' =
          IF MemContains(asset)
          THEN tags_by_asset
          ELSE tags_by_asset @@ (asset :> TagsOrEmpty(tags))
    /\ memResult' = Ok

MemAdd(asset, tags) ==
    /\ tags_by_asset' =
          IF MemContains(asset)
          THEN [tags_by_asset EXCEPT ![MemKey(asset)] = TagsOrEmpty(tags)]
          ELSE tags_by_asset @@ (asset :> TagsOrEmpty(tags))
    /\ memResult' = Ok

MemRemove(asset) ==
    IF ~MemContains(asset)
    THEN /\ memResult' = ValueError
         /\ UNCHANGED tags_by_asset
    ELSE /\ tags_by_asset' = Del(tags_by_asset, MemKey(asset))
         /\ memResult' = Ok

\* list(self.tags_by_asset.keys()), as the set of its elements
MemIter == DOMAIN tags_by_asset

MemFilterByTags(search_tags) ==
    { a \in DOMAIN tags_by_asset : search_tags \subseteq tags_by_asset[a] }

-----------------------------------------------------------------------------
(* FileStorage.  Every operation opens the shelf, works on it and closes   *)
(* it; the iteration order of a shelf is that of its dbm file, so a scan   *)
(* that stops at the first match may stop at any match.                    *)

\* FileStorage.__init__: the counter starts after the largest stored key.
SeedSequence(assets) ==
    LET max_stored_asset_id ==
            IF DOMAIN assets # {} THEN max({ int(k) : k \in DOMAIN assets }) ELSE 0
    IN  max_stored_asset_id + 1

\* The keys whose stored asset equals asset.
FileMatches(asset) == { k \in DOMAIN shelf : AssetEq(asset, shelf[k][1]) }

FileContains(asset) == \E k \in DOMAIN shelf : AssetEq(asset, shelf[k][1])

\* The shelf with value stored under the next identity.
Allocate(assets, asset_id, value) ==
    [k \in DOMAIN assets \cup {str(asset_id)} |->
        IF k = str(asset_id) THEN value ELSE assets[k]]

\* FileAdd without the scan for an equal asset: every add allocates.
FileAddNoScan(asset, tags) ==
    /\ fileResult' = Ok
    /\ _asset_id_sequence' = _asset_id_sequence + 1
    /\ shelf' = Allocate(shelf, _asset_id_sequence, <<asset, TagsOrEmpty(tags)>>)
    /\ assigned' = assigned \cup {<<_asset_id_sequence, asset>>}

\* FileAdd that moves an asset it already holds to a fresh identity.
FileAddReallocates(asset, tags) ==
    /\ fileResult' = Ok
    /\ _asset_id_sequence' = _asset_id_sequence + 1
    /\ \E old \in IF FileMatches(asset) # {} THEN FileMatches(asset) ELSE {<<>>} :
           shelf' = Allocate(Del(shelf, old), _asset_id_sequence,
                             <<asset, TagsOrEmpty(tags)>>)
    /\ assigned' = assigned \cup {<<_asset_id_sequence, asset>>}

FileAdd(asset, tags) ==
    /\ fileResult' = Ok
    /\ IF FileMatches(asset) # {}
       THEN /\ \E asset_id \in FileMatches(asset) :
                  shelf' = [shelf EXCEPT ![asset_id] = <<asset, TagsOrEmpty(tags)>>]
            /\ UNCHANGED <<_asset_id_sequence, assigned>>
       ELSE LET asset_id == _asset_id_sequence
            IN  /\ _asset_id_sequence' = _asset_id_sequence + 1
                /\ shelf' = Allocate(shelf, asset_id, <<asset, TagsOrEmpty(tags)>>)
                /\ assigned' = assigned \cup {<<asset_id, asset>>}

\* FileRemove that returns quietly when it finds no equal asset.
FileRemoveQuiet(asset) ==
    /\ fileResult' = Ok
    /\ IF FileMatches(asset) # {}
       THEN \E asset_id \in FileMatches(asset) : shelf' = Del(shelf, asset_id)
       ELSE UNCHANGED shelf

FileRemove(asset) ==
    IF FileMatches(asset) # {}
    THEN /\ \E asset_id \in FileMatches(asset) : shelf' = Del(shelf, asset_id)
         /\ fileResult' = Ok
    ELSE /\ fileResult' = ValueError
         /\ UNCHANGED shelf

\* [asset for asset, tags in assets.values()]: the listed asset of each key
FileIter == [k \in DOMAIN shelf |-> shelf[k][1]]

\* FileFilterByTags that takes an asset with any one of the tags.
FileFilterAnyTag(search_tags) ==
    LET hits == { k \in DOMAIN shelf : search_tags \cap shelf[k][2] # {} }
    IN  [k \in hits |-> shelf[k][1]]

FileFilterByTags(search_tags) ==
    LET hits == { k \in DOMAIN shelf : search_tags \subseteq shelf[k][2] }
    IN  [k \in hits |-> shelf[k][1]]

\* The elements of a listing.
Elements(listing) == { listing[k] : k \in DOMAIN listing }

\* How often a listing yields an asset equal to asset.
Count(listing, asset) ==
    Cardinality({ k \in DOMAIN listing : AssetEq(listing[k], asset) })

-----------------------------------------------------------------------------
(* Format processors and metadata processors.  The concrete processors     *)
(* are not part of core.py; they are modelled by the contract core.py and  *)
(* the design give them.                                                    *)

\* The format processors that may be registered: the container kinds each
\* accepts, and what its can_read does when handed None instead of a stream.
ProcessorPool ==
    { [name |-> "PillowProcessor", accepts |-> {"jpeg", "png"}, onNone |-> "raise"],
      [name |-> "FFmpegProcessor", accepts |-> {"jpeg"}, onNone |-> "reject"] }

\* A file argument: <<>> is None, <<b>> a stream holding the bytes b.
NoFile == <<>>

\* processor.can_read(file): TRUE, FALSE, or "TypeError" when it raises.
can_read(processor, file) ==
    IF file = NoFile
    THEN (IF processor.onNone = "raise" THEN "TypeError" ELSE "FALSE")
    ELSE (IF file[1].kind \in processor.accepts THEN "TRUE" ELSE "FALSE")

MimeType(kind) == IF kind = "jpeg" THEN "image/jpeg" ELSE "image/png"

\* processor.read(file): the base asset, its essence the stream as it is.
ProcessorRead(processor, file) ==
    Asset(file[1], [mime_type |-> MimeType(file[1].kind), width |-> "4"])

\* MetadataProcessor.read for format: <<>> when it raises
\* UnsupportedFormatError, else <<metadata>>.
MetadataRead(format, bytes) ==
    IF bytes.layers[format] = Absent THEN <<>> ELSE <<bytes.layers[format]>>

\* MetadataProcessor.strip for format
MetadataStrip(format, bytes) == [bytes EXCEPT !.layers[format] = Absent]

\* MetadataProcessor.combine for format
MetadataCombine(format, bytes, metadata) ==
    [bytes EXCEPT !.layers[format] = metadata]

\* The streams read is called with.
Streams ==
    {EmptyBytes} \cup
    { Bytes(kind, "b1", layers) :
        kind \in Kinds, layers \in [MetaFormats -> MetaValues \cup {Absent}] }

Files == {NoFile} \cup { <<b>> : b \in Streams }

-----------------------------------------------------------------------------
(* read and write *)

UnsupportedFormatError == "UnsupportedFormatError"
TypeError == "TypeError"

\* dictionary with dictionary[key] = value
Put(dictionary, key, value) ==
    [k \in DOMAIN dictionary \cup {key} |-> IF k = key THEN value ELSE dictionary[k]]

\* A call read or write makes: the operation, the processor or metadata
\* format it is made on, the bytes handed over (<<>> for None or nothing) and
\* where the input file then stands ("start" or "moved").
Call(op, who, on, pos) == [op |-> op, who |-> who, on |-> on, pos |-> pos]

\* Where the input file stands after calls: at its start when read was
\* entered and after file.seek(0), moved by every call that read from it.
Position(calls) ==
    IF calls = <<>> \/ calls[Len(calls)].op = "seek" THEN "start" ELSE "moved"

\* next(processor for processor in processors if processor.can_read(file)):
\* probes from position i on; the position of the first processor that
\* accepts, 0 when none does, and the probes made; a raising can_read ends it.
RECURSIVE Probe(_, _, _)
Probe(file, i, calls) ==
    IF i > Len(processors)
    THEN [status |-> "none", at |-> 0, calls |-> calls]
    ELSE LET answer == can_read(processors[i], file)
             probed == Append(calls, Call("can_read", processors[i].name, file,
                                          Position(calls)))
         IN  CASE answer = "TypeError" -> [status |-> TypeError, at |-> 0, calls |-> probed]
               [] answer = "TRUE" -> [status |-> "found", at |-> i, calls |-> probed]
               [] OTHER -> Probe(file, i + 1, probed)

\* Probe that settles for the first registered processor when none accepts
\* an open stream.
FindProcessorOrFirst(file) ==
    LET found == Probe(file, 1, <<>>)
    IN  IF found.status = "none" /\ processors # <<>> /\ file # NoFile
        THEN [found EXCEPT !.status = "found", !.at = 1]
        ELSE found

\* Probe that asks every processor and takes the last one that accepts.
RECURSIVE ProbeAll(_, _, _, _)
ProbeAll(file, i, at, calls) ==
    IF i > Len(processors)
    THEN [status |-> IF at = 0 THEN "none" ELSE "found", at |-> at, calls |-> calls]
    ELSE LET answer == can_read(processors[i], file)
             probed == Append(calls, Call("can_read", processors[i].name, file,
                                          Position(calls)))
         IN  IF answer = "TypeError"
             THEN [status |-> TypeError, at |-> 0, calls |-> probed]
             ELSE ProbeAll(file, i + 1, IF answer = "TRUE" THEN i ELSE at, probed)

FindProcessorLast(file) == ProbeAll(file, 1, 0, <<>>)

FindProcessor(file) == Probe(file, 1, <<>>)

\* The body of read's loop that strips and rebuilds the asset also when the
\* extraction raised UnsupportedFormatError.
LayerFormatAlways(file, asset, metadata_format, calls) ==
    LET sought == Append(calls, Call("seek", "file", <<>>, "start"))
        tried == Append(sought, Call("read", metadata_format, file, Position(sought)))
        extracted == MetadataRead(metadata_format, file[1])
        metadata == IF extracted = <<>> THEN asset.metadata
                    ELSE Put(asset.metadata, metadata_format, extracted[1])
        stripped_essence == MetadataStrip(metadata_format, asset.essence_data)
    IN  [asset |-> Asset(stripped_essence, [metadata |-> _freeze_dict(metadata)]),
         calls |-> Append(tried, Call("strip", metadata_format,
                                      <<asset.essence_data>>, Position(tried)))]

\* The body of read's loop that strips the input file, not the asset's essence.
LayerFormatStripsFile(file, asset, metadata_format, calls) ==
    LET sought == Append(calls, Call("seek", "file", <<>>, "start"))
        tried == Append(sought, Call("read", metadata_format, file, Position(sought)))
        extracted == MetadataRead(metadata_format, file[1])
    IN  IF extracted = <<>>
        THEN [asset |-> asset, calls |-> tried]
        ELSE LET metadata == Put(asset.metadata, metadata_format, extracted[1])
                 stripped_essence == MetadataStrip(metadata_format, file[1])
                 clean_asset ==
                     Asset(stripped_essence, [metadata |-> _freeze_dict(metadata)])
             IN  [asset |-> clean_asset,
                  calls |-> Append(tried, Call("strip", metadata_format, file,
                                               Position(tried)))]

\* The body of read's loop for one metadata format: file.seek(0), then the
\* try block, which UnsupportedFormatError leaves with the asset as it was.
LayerFormat(file, asset, metadata_format, calls) ==
    LET sought == Append(calls, Call("seek", "file", <<>>, "start"))
        tried == Append(sought, Call("read", metadata_format, file, Position(sought)))
        extracted == MetadataRead(metadata_format, file[1])
    IN  IF extracted = <<>>
        THEN [asset |-> asset, calls |-> tried]
        ELSE LET metadata == Put(asset.metadata, metadata_format, extracted[1])
                 stripped_essence ==
                     MetadataStrip(metadata_format, asset.essence_data)
                 clean_asset ==
                     Asset(stripped_essence, [metadata |-> _freeze_dict(metadata)])
             IN  [asset |-> clean_asset,
                  calls |-> Append(tried, Call("strip", metadata_format,
                                               <<asset.essence_data>>, Position(tried)))]

\* The loop of read over the metadata formats from position i on.
RECURSIVE ReadMetadata(_, _, _, _)
ReadMetadata(file, asset, i, calls) ==
    IF i > Len(metadata_processors_by_format)
    THEN [asset |-> asset, calls |-> calls]
    ELSE LET layered == LayerFormat(file, asset, metadata_processors_by_format[i], calls)
         IN  ReadMetadata(file, layered.asset, i + 1, layered.calls)

\* read(file): how it ends, the asset it returns and the calls it makes.
read(file) ==
    LET found == FindProcessor(file)
    IN  CASE found.status = TypeError ->
               [status |-> TypeError, asset |-> <<>>, calls |-> found.calls]
          [] found.status = "none" ->
               [status |-> UnsupportedFormatError, asset |-> <<>>, calls |-> found.calls]
          [] OTHER ->
               LET processor == processors[found.at]
                   base == ProcessorRead(processor, file)
                   done == ReadMetadata(file, base, 1,
                              Append(found.calls, Call("read", processor.name, file,
                                                       Position(found.calls))))
               IN  [status |-> "returned", asset |-> <<done.asset>>, calls |-> done.calls]

\* getattr(asset, item, None): a metadata entry read as an attribute.
GetAttr(asset, item) ==
    IF item \in DOMAIN asset.metadata THEN asset.metadata[item] ELSE None

\* write's loop that combines every format into the asset's essence, not
\* into what the formats before it produced.
RECURSIVE WriteMetadataOntoEssence(_, _, _, _)
WriteMetadataOntoEssence(asset, essence_with_metadata, i, calls) ==
    IF i > Len(metadata_processors_by_format)
    THEN [bytes |-> essence_with_metadata, calls |-> calls]
    ELSE LET metadata_format == metadata_processors_by_format[i]
             metadata == GetAttr(asset, metadata_format)
         IN  IF metadata # None
             THEN WriteMetadataOntoEssence(asset,
                      MetadataCombine(metadata_format, asset.essence_data, metadata),
                      i + 1,
                      Append(calls, [op |-> "combine", who |-> metadata_format,
                                     on |-> asset.essence_data,
                                     metadata |-> metadata]))
             ELSE WriteMetadataOntoEssence(asset, essence_with_metadata, i + 1, calls)

\* The loop of write over the metadata formats from position i on: the
\* bytes it ends with and the combine calls it has made.
RECURSIVE WriteMetadata(_, _, _, _)
WriteMetadata(asset, essence_with_metadata, i, calls) ==
    IF i > Len(metadata_processors_by_format)
    THEN [bytes |-> essence_with_metadata, calls |-> calls]
    ELSE LET metadata_format == metadata_processors_by_format[i]
             metadata == GetAttr(asset, metadata_format)
         IN  IF metadata # None
             THEN WriteMetadata(asset,
                      MetadataCombine(metadata_format, essence_with_metadata, metadata),
                      i + 1,
                      Append(calls, [op |-> "combine", who |-> metadata_format,
                                     on |-> essence_with_metadata,
                                     metadata |-> metadata]))
             ELSE WriteMetadata(asset, essence_with_metadata, i + 1, calls)

\* write(asset, file): the bytes copied to file, and the calls made.
write(asset) == WriteMetadata(asset, asset.essence_data, 1, <<>>)

\* The assets a caller constructs and writes: Asset(essence, **metadata).
NewAssets ==
    { Asset(essence, metadata) :
        essence \in { Bytes("jpeg", "b1", NoLayers),
                      Bytes("jpeg", "b1", [NoLayers EXCEPT !["xmp"] = "m1"]) },
        metadata \in { <<>>,
                       [exif |-> "m1"],
                       [xmp |-> "m2"],
                       [exif |-> "m2", xmp |-> "m1"],
                       [exif |-> None, xmp |-> "m2"],
                       [mime_type |-> "image/jpeg", exif |-> "m1", xmp |-> "m2"] } }

RWInit ==
    /\ processors = <<>>
    /\ metadata_processors_by_format = <<>>
    /\ rdFile = NoFile
    /\ rdStatus = "idle"
    /\ rdAsset = <<>>
    /\ rdCalls = <<>>
    /\ wrAsset = <<>>
    /\ wrCalls = <<>>
    /\ written = <<>>

\* Processor.__init__: a processor registers itself; the registries are
\* filled before the first read or write.
RegisterProcessor ==
    \E processor \in ProcessorPool :
        /\ rdStatus = "idle" /\ written = <<>>
        /\ \A i \in DOMAIN processors : processors[i] # processor
        /\ processors' = Append(processors, processor)
        /\ UNCHANGED <<metadata_processors_by_format, rdFile, rdStatus, rdAsset,
                       rdCalls, wrAsset, wrCalls, written>>
        /\ UNCHANGED outsideRW

\* MetadataProcessor.__init__: a dict keeps the place of a key it holds.
RegisterMetadataProcessor ==
    \E format \in MetaFormats :
        /\ rdStatus = "idle" /\ written = <<>>
        /\ metadata_processors_by_format' =
              IF \E i \in DOMAIN metadata_processors_by_format :
                    metadata_processors_by_format[i] = format
              THEN metadata_processors_by_format
              ELSE Append(metadata_processors_by_format, format)
        /\ UNCHANGED <<processors, rdFile, rdStatus, rdAsset, rdCalls, wrAsset,
                       wrCalls, written>>
        /\ UNCHANGED outsideRW

\* madam.read(file)
Read ==
    \E file \in Files :
        LET result == read(file)
        IN  /\ rdFile' = file
            /\ rdStatus' = result.status
            /\ rdAsset' = result.asset
            /\ rdCalls' = result.calls
            /\ wrAsset' = <<>>
            /\ wrCalls' = <<>>
            /\ written' = <<>>
            /\ UNCHANGED <<processors, metadata_processors_by_format>>
            /\ UNCHANGED outsideRW

\* madam.write(asset, file) of the asset read last
Write ==
    /\ rdStatus = "returned"
    /\ wrAsset' = rdAsset
    /\ wrCalls' = write(rdAsset[1]).calls
    /\ written' = <<write(rdAsset[1]).bytes>>
    /\ UNCHANGED <<processors, metadata_processors_by_format, rdFile, rdStatus,
                   rdAsset, rdCalls>>
    /\ UNCHANGED outsideRW

\* madam.write(asset, file) of an asset the caller constructed
WriteNew ==
    \E asset \in NewAssets :
        /\ wrAsset' = <<asset>>
        /\ wrCalls' = write(asset).calls
        /\ written' = <<write(asset).bytes>>
        /\ rdFile' = NoFile
        /\ rdStatus' = "idle"
        /\ rdAsset' = <<>>
        /\ rdCalls' = <<>>
        /\ UNCHANGED <<processors, metadata_processors_by_format>>
        /\ UNCHANGED outsideRW

-----------------------------------------------------------------------------
(* The storage operations, each called on both backends. *)

StorageInit ==
    /\ tags_by_asset = <<>>
    /\ shelf = <<>>
    /\ _asset_id_sequence = SeedSequence(<<>>)
    /\ assigned = {}
    /\ tagged = <<>>
    /\ call = [op |-> "init"]
    /\ memResult = Ok
    /\ fileResult = Ok

\* storage.add(asset, tags)
Add ==
    \E asset \in StoreAssets, tags \in TagArgs :
        /\ FileContains(asset) \/ _asset_id_sequence <= MaxId
        /\ call' = [op |-> "add", asset |-> asset, tags |-> tags]
        /\ tagged' = [a \in DOMAIN tagged \cup {asset} |->
                        IF a = asset THEN (IF tags = <<>> THEN {} ELSE tags[1])
                        ELSE tagged[a]]
        /\ MemAdd(asset, tags)
        /\ FileAdd(asset, tags)
        /\ UNCHANGED outsideStorage

\* storage.remove(asset)
Remove ==
    \E asset \in StoreAssets :
        /\ call' = [op |-> "remove", asset |-> asset]
        /\ tagged' = Del(tagged, asset)
        /\ MemRemove(asset)
        /\ FileRemove(asset)
        /\ UNCHANGED <<_asset_id_sequence, assigned>>
        /\ UNCHANGED outsideStorage

\* The FileStorage is dropped and FileStorage(path) constructed again.
Reopen ==
    /\ call' = [op |-> "open"]
    /\ _asset_id_sequence' = SeedSequence(shelf)
    /\ fileResult' = Ok
    /\ UNCHANGED <<tags_by_asset, shelf, assigned, tagged, memResult>>
    /\ UNCHANGED outsideStorage

-----------------------------------------------------------------------------
(* The versioned storage, AssetStorage of src/adam/core.py.  Its assets    *)
(* field is a collections.defaultdict(list): looking up a missing key      *)
(* stores an empty list under it.  A snapshot is the object handed to      *)
(* __setitem__; the storage keeps it by reference.                         *)

AdamIds == {"a", "b"}
Snapshots == {"s1", "s2"}
MaxVersions == 2

KeyError == "KeyError"
IndexError == "IndexError"

\* defaultdict.__getitem__: the dict after the lookup of id.
Missing(dict, id) ==
    IF id \in DOMAIN dict THEN dict ELSE (id :> <<>>) @@ dict

\* __setitem__ that puts the asset in place of the versions held.
AdamSetItemOverwrites(dict, id, asset) ==
    [assets |-> [Missing(dict, id) EXCEPT ![id] = <<asset>>], result |-> Ok]

\* self.assets[id].append(asset)
AdamSetItem(dict, id, asset) ==
    [assets |-> [Missing(dict, id) EXCEPT ![id] = Append(@, asset)], result |-> Ok]

\* return self.assets[id][-1]
AdamGetItem(dict, id) ==
    LET after == Missing(dict, id)
    IN  [assets |-> after,
         result |-> IF after[id] = <<>> THEN IndexError
                    ELSE after[id][Len(after[id])]]

\* return id in self.assets
AdamContains(dict, id) ==
    [assets |-> dict, result |-> id \in DOMAIN dict]

\* del self.assets[key]
AdamDelItem(dict, key) ==
    IF key \in DOMAIN dict
    THEN [assets |-> Del(dict, key), result |-> Ok]
    ELSE [assets |-> dict, result |-> KeyError]

\* return self.assets[id]
versions_of(dict, id) ==
    [assets |-> Missing(dict, id), result |-> Missing(dict, id)[id]]

VersionedInit ==
    /\ adam_assets = <<>>
    /\ stored = [id \in AdamIds |-> <<>>]
    /\ erased = {}
    /\ adamCall = [op |-> "init"]

\* storage[id] = asset
AdamStore ==
    \E id \in AdamIds, asset \in Snapshots :
        LET done == AdamSetItem(adam_assets, id, asset)
        IN  /\ Len(stored[id]) < MaxVersions
            /\ adam_assets' = done.assets
            /\ stored' = [stored EXCEPT ![id] = Append(@, asset)]
            /\ adamCall' = [op |-> "setitem", id |-> id, result |-> <<done.result>>]
            /\ UNCHANGED erased
            /\ UNCHANGED outsideVersioned

\* del storage[id]
AdamDelete ==
    \E id \in AdamIds :
        LET done == AdamDelItem(adam_assets, id)
        IN  /\ adam_assets' = done.assets
            /\ stored' = IF done.result = Ok THEN [stored EXCEPT ![id] = <<>>]
                         ELSE stored
            /\ erased' = IF done.result = Ok THEN erased \cup {id} ELSE erased
            /\ adamCall' = [op |-> "delitem", id |-> id, result |-> <<done.result>>]
            /\ UNCHANGED outsideVersioned

\* storage[id]
AdamLookup ==
    \E id \in AdamIds :
        LET done == AdamGetItem(adam_assets, id)
        IN  /\ adam_assets' = done.assets
            /\ adamCall' = [op |-> "getitem", id |-> id, result |-> <<done.result>>]
            /\ UNCHANGED <<stored, erased>>
            /\ UNCHANGED outsideVersioned

\* id in storage
AdamAsk ==
    \E id \in AdamIds :
        LET done == AdamContains(adam_assets, id)
        IN  /\ adam_assets' = done.assets
            /\ adamCall' = [op |-> "contains", id |-> id, result |-> <<done.result>>]
            /\ UNCHANGED <<stored, erased>>
            /\ UNCHANGED outsideVersioned

\* storage.versions_of(id)
AdamVersionsOf ==
    \E id \in AdamIds :
        LET done == versions_of(adam_assets, id)
        IN  /\ adam_assets' = done.assets
            /\ adamCall' = [op |-> "versions_of", id |-> id, result |-> <<done.result>>]
            /\ UNCHANGED <<stored, erased>>
            /\ UNCHANGED outsideVersioned

-----------------------------------------------------------------------------
(* Pipeline.  The operators are callables of the caller; an asset going    *)
(* through them is modelled by where it came from and the operators        *)
(* applied to it so far.  process is a generator: nothing runs before the  *)
(* first next(), self.operators is read when an asset's turn comes, and an *)
(* exception leaving the generator finishes it.                            *)

OperatorPool == {"flip", "crop"}
Sources == {"b1", "b2"}
MaxOperators == 2
MaxInputs == 3

\* The asset process is handed for a source.
Input(source) == [src |-> source, ops |-> <<>>]

\* The sequences of length at most n over the set S.
SeqUpTo(S, n) == UNION { [1..m -> S] : m \in 0..n }

\* crop raises for everything made from source b2; flip never raises.
Raises(operator, asset) == operator = "crop" /\ asset.src = "b2"
OperatorError(operator) == [type |-> "OperatorError", raised_by |-> operator]

\* operator(processed_asset)
Apply(operator, asset) ==
    IF Raises(operator, asset)
    THEN [ok |-> FALSE, error |-> OperatorError(operator)]
    ELSE [ok |-> TRUE, asset |-> [asset EXCEPT !.ops = Append(@, operator)]]

\* The inner loop that takes the operators last to first.
RECURSIVE InnerLoopReversed(_, _, _, _, _)
InnerLoopReversed(ops, i, processed_asset, k, calls) ==
    IF i > Len(ops) THEN [ok |-> TRUE, asset |-> processed_asset, calls |-> calls]
    ELSE LET operator == ops[Len(ops) + 1 - i]
             made == Apply(operator, processed_asset)
             called == Append(calls, [k |-> k, operator |-> operator])
         IN  IF made.ok THEN InnerLoopReversed(ops, i + 1, made.asset, k, called)
             ELSE [ok |-> FALSE, error |-> made.error, at |-> i, calls |-> called]

\* for operator in self.operators: processed_asset = operator(processed_asset)
RECURSIVE InnerLoop(_, _, _, _, _)
InnerLoop(ops, i, processed_asset, k, calls) ==
    IF i > Len(ops) THEN [ok |-> TRUE, asset |-> processed_asset, calls |-> calls]
    ELSE LET made == Apply(ops[i], processed_asset)
             called == Append(calls, [k |-> k, operator |-> ops[i]])
         IN  IF made.ok THEN InnerLoop(ops, i + 1, made.asset, k, called)
             ELSE [ok |-> FALSE, error |-> made.error, at |-> i, calls |-> called]

\* A generator that goes on with the next asset after an operator raised.
ResumeSkipsFailed(ops, inputs, k, state) ==
    IF state = "finished" \/ k > Len(inputs)
    THEN [state |-> "finished", at |-> k, kind |-> "StopIteration", calls |-> <<>>]
    ELSE LET run == InnerLoop(ops, 1, inputs[k], k, <<>>)
         IN  IF run.ok
             THEN [state |-> "suspended", at |-> k + 1, kind |-> "yield",
                   asset |-> run.asset, calls |-> run.calls]
             ELSE [state |-> "suspended", at |-> k + 1, kind |-> "error",
                   error |-> run.error, operator |-> run.at, calls |-> run.calls]

\* next(generator): the body of process run from where it was suspended up
\* to its next yield, its end or the exception that leaves it.
Resume(ops, inputs, k, state) ==
    IF state = "finished" \/ k > Len(inputs)
    THEN [state |-> "finished", at |-> k, kind |-> "StopIteration", calls |-> <<>>]
    ELSE LET run == InnerLoop(ops, 1, inputs[k], k, <<>>)
         IN  IF run.ok
             THEN [state |-> "suspended", at |-> k + 1, kind |-> "yield",
                   asset |-> run.asset, calls |-> run.calls]
             ELSE [state |-> "finished", at |-> k, kind |-> "error",
                   error |-> run.error, operator |-> run.at, calls |-> run.calls]

PipelineInit ==
    /\ operators = <<>>
    /\ gen_assets = <<>>
    /\ gen_at = 1
    /\ gen_state = "none"
    /\ yielded = <<>>
    /\ seen = <<>>
    /\ applied = <<>>
    /\ failed = <<>>
    /\ outcome = [kind |-> "none"]

\* pipeline.add(operator), at any time
PipelineAdd ==
    \E operator \in OperatorPool :
        /\ Len(operators) < MaxOperators
        /\ operators' = Append(operators, operator)
        /\ UNCHANGED <<gen_assets, gen_at, gen_state, yielded, seen, applied,
                       failed, outcome>>
        /\ UNCHANGED outsidePipeline

\* generator = pipeline.process(*assets); the consumer drops the one it had.
Process ==
    \E sources \in SeqUpTo(Sources, MaxInputs) :
        /\ gen_assets' = [k \in DOMAIN sources |-> Input(sources[k])]
        /\ gen_at' = 1
        /\ gen_state' = "suspended"
        /\ yielded' = <<>>
        /\ seen' = <<>>
        /\ applied' = <<>>
        /\ failed' = <<>>
        /\ outcome' = [kind |-> "none"]
        /\ UNCHANGED operators
        /\ UNCHANGED outsidePipeline

\* next(generator)
PipelineNext ==
    LET step == Resume(operators, gen_assets, gen_at, gen_state)
    IN  /\ gen_state # "none"
        /\ gen_state' = step.state
        /\ gen_at' = step.at
        /\ applied' = applied \o step.calls
        /\ yielded' = IF step.kind = "yield" THEN Append(yielded, step.asset)
                      ELSE yielded
        /\ seen' = IF step.kind = "yield" THEN Append(seen, operators) ELSE seen
        /\ failed' = IF step.kind = "error"
                     THEN Append(failed, [k |-> gen_at, operator |-> step.operator,
                                          operators |-> operators,
                                          error |-> step.error,
                                          yielded |-> yielded])
                     ELSE failed
        /\ outcome' = IF step.kind = "yield"
                      THEN [kind |-> "yield", asset |-> step.asset]
                      ELSE IF step.kind = "error"
                      THEN [kind |-> "error", error |-> step.error]
                      ELSE [kind |-> "StopIteration"]
        /\ UNCHANGED <<operators, gen_assets>>
        /\ UNCHANGED outsidePipeline

-----------------------------------------------------------------------------
(* An Asset object in the hands of a caller: attribute assignment goes     *)
(* through Asset.__setattr__ and, where that lets it pass, through         *)
(* object.__setattr__, for which essence is a property without a setter.   *)

NotImplementedError == "NotImplementedError"
AttributeError == "AttributeError"

\* The assets a caller holds: constructed ones and one as read returns it.
HeldAssets ==
    NewAssets \cup
    { Asset(Bytes("jpeg", "b1", NoLayers),
            [metadata |-> [exif |-> "m1", mime_type |-> "image/jpeg"]]) }

\* The attribute names assigned to, and the values assigned under each.
AttrKeys == {"essence_data", "metadata", "essence", "exif", "mime_type", "title"}
AttrValues(key) ==
    IF key \in {"essence_data", "essence"} THEN { Bytes("png", "b2", NoLayers) }
    ELSE IF key = "metadata" THEN { [title |-> "t"], [exif |-> "m2"] }
    ELSE { "m2" }

\* Asset.__setattr__(key, value) on an object with the given __dict__
SetAttr(dict, key, value) ==
    IF "metadata" \in DOMAIN dict /\ key \in DOMAIN dict["metadata"]
    THEN [dict |-> dict, result |-> NotImplementedError]
    ELSE IF key = "essence"
    THEN [dict |-> dict, result |-> AttributeError]
    ELSE [dict |-> (key :> value) @@ dict, result |-> Ok]

AssetInit ==
    /\ asset_dict = <<>>
    /\ constructed = <<>>
    /\ setResult = Ok
    /\ relayered = <<>>

\* asset = Asset(essence, **metadata)
Construct ==
    \E asset \in HeldAssets :
        /\ asset_dict' = asset
        /\ constructed' = <<asset>>
        /\ setResult' = Ok
        /\ relayered' = <<>>
        /\ UNCHANGED outsideAsset

\* asset.key = value
Assign ==
    \E key \in AttrKeys :
        \E value \in AttrValues(key) :
            LET done == SetAttr(asset_dict, key, value)
            IN  /\ constructed # <<>>
                /\ asset_dict' = done.dict
                /\ setResult' = done.result
                /\ UNCHANGED <<constructed, relayered>>
                /\ UNCHANGED outsideAsset

\* One turn of read's loop with the object as its asset.
Layer ==
    \E layers \in [MetaFormats -> {"m1", Absent}], metadata_format \in MetaFormats :
      LET file == << Bytes("jpeg", "b1", layers) >> IN
        /\ constructed # <<>>
        /\ relayered' = << LayerFormat(file, asset_dict, metadata_format, <<>>).asset >>
        /\ UNCHANGED <<asset_dict, constructed, setResult>>
        /\ UNCHANGED outsideAsset

-----------------------------------------------------------------------------
(* The shelf handle of FileStorage.  Every operation runs its body inside  *)
(* "with shelve.open(self._shelf_path) as assets": the handle is opened on *)
(* entry and closed by the with statement however the body is left.  The   *)
(* operations of one FileStorage run one after the other.                  *)

\* The calls made: the operation with the arguments it takes.
FileCalls ==
    { [op |-> op] : op \in {"__init__", "__iter__"} }
    \cup { [op |-> op, asset |-> asset] :
              op \in {"__contains__", "remove"}, asset \in StoreAssets }
    \cup { [op |-> "add", asset |-> asset, tags |-> tags] :
              asset \in StoreAssets, tags \in {<<>>, <<{"x"}>>} }
    \cup { [op |-> "filter_by_tags", search_tags |-> search_tags] :
              search_tags \in {{}, {"x"}} }

IOError == "IOError"

\* shelve.open(self._shelf_path): one more handle is open.
ShelveOpen(open) == open + 1

\* A with statement that closes the handle only when the body runs to its end.
WithExitAtEnd(open, way) == IF way = "end" THEN open - 1 ELSE open

\* The with statement's exit, whichever way the body is left: at its end,
\* by a return or by an exception.
WithExit(open, way) == open - 1

\* The way the body of an operation leaves the with block when nothing in
\* it raises.
WayOut(c) ==
    IF c.op \in {"__contains__", "__iter__", "filter_by_tags"} THEN "return"
    ELSE IF c.op \in {"add", "remove"} /\ FileMatches(c.asset) # {} THEN "return"
    ELSE "end"

HandlesInit ==
    /\ handles = 0
    /\ inside = <<>>
    /\ left = [op |-> "none"]

\* An operation is called and enters its with block.
Enter ==
    \E c \in FileCalls :
        /\ inside = <<>>
        /\ c.op = "add" => (FileContains(c.asset) \/ _asset_id_sequence <= MaxId)
        /\ handles' = ShelveOpen(handles)
        /\ inside' = <<c>>
        /\ UNCHANGED left
        /\ UNCHANGED storageVars
        /\ UNCHANGED outsideHandles

\* The body of the operation runs and leaves the with block; remove raises
\* its ValueError after the block.
Leave ==
    /\ inside # <<>>
    /\ LET c == inside[1]
       IN  /\ CASE c.op = "__init__" ->
                    /\ _asset_id_sequence' = SeedSequence(shelf)
                    /\ fileResult' = Ok
                    /\ UNCHANGED <<shelf, assigned>>
                [] c.op = "add" -> FileAdd(c.asset, c.tags)
                [] c.op = "remove" ->
                    /\ FileRemove(c.asset)
                    /\ UNCHANGED <<_asset_id_sequence, assigned>>
                [] OTHER ->
                    /\ fileResult' = Ok
                    /\ UNCHANGED <<shelf, _asset_id_sequence, assigned>>
           /\ handles' = WithExit(handles, WayOut(c))
           /\ left' = [op |-> c.op, way |-> WayOut(c)]
    /\ inside' = <<>>
    /\ UNCHANGED <<tags_by_asset, tagged, call, memResult>>
    /\ UNCHANGED outsideHandles

\* Something in the body raises (the shelf cannot be read or written).
Fail ==
    /\ inside # <<>>
    /\ handles' = WithExit(handles, "raise")
    /\ left' = [op |-> inside[1].op, way |-> "raise"]
    /\ inside' = <<>>
    /\ fileResult' = IOError
    /\ UNCHANGED <<tags_by_asset, shelf, _asset_id_sequence, assigned, tagged, call,
                   memResult>>
    /\ UNCHANGED outsideHandles

-----------------------------------------------------------------------------
(* The iterators of the storages.  __iter__ and filter_by_tags of both     *)
(* backends build a list and return iter(list); the order of the list is  *)
(* that of the dict or of the dbm file, which the model leaves open.       *)

StopIteration == "StopIteration"

\* The calls made: iteration, and filter_by_tags with the tags it takes.
Queries ==
    { [op |-> "__iter__"] }
    \cup { [op |-> "filter_by_tags", search_tags |-> t] : t \in {{}, {"x"}} }

\* The lists that hold every element of the set S once.
Orderings(S) ==
    { l \in [1..Cardinality(S) -> S] : \A i, j \in DOMAIN l : l[i] = l[j] => i = j }

\* The list InMemoryStorage builds for a query, in any order of the dict.
MemList(query) ==
    Orderings(IF query.op = "__iter__" THEN MemIter
              ELSE MemFilterByTags(query.search_tags))

\* The list FileStorage builds for a query, in any order of the shelf.
FileList(query) ==
    LET listing == IF query.op = "__iter__" THEN FileIter
                   ELSE FileFilterByTags(query.search_tags)
    IN  { [i \in DOMAIN order |-> listing[order[i]]] :
            order \in Orderings(DOMAIN listing) }

\* iter(list)
Iter(list) == [list |-> list, at |-> 1]

\* next() of an iterator that looks its elements up in the storage: those
\* removed since are passed over, those added since come after the list.
ViewNext(it, stored_now) ==
    LET rest == SubSeq(it.list, it.at, Len(it.list))
        kept == { i \in DOMAIN rest : rest[i] \in stored_now }
        added == stored_now \ { it.list[i] : i \in DOMAIN it.list }
    IN  IF kept # {}
        THEN LET i == CHOOSE i \in kept : \A j \in kept : i <= j
             IN  [it |-> [it EXCEPT !.at = it.at + i], kind |-> "yield",
                  value |-> <<rest[i]>>]
        ELSE IF added # {}
        THEN LET a == CHOOSE a \in added : TRUE
             IN  [it |-> [list |-> Append(it.list, a), at |-> Len(it.list) + 2],
                  kind |-> "yield", value |-> <<a>>]
        ELSE [it |-> it, kind |-> StopIteration, value |-> <<>>]

\* next() of a list iterator; the list is the iterator's own, so what the
\* storage holds by now has no part in it.
ListNext(it, stored_now) ==
    IF it.at <= Len(it.list)
    THEN [it |-> [it EXCEPT !.at = it.at + 1], kind |-> "yield",
          value |-> <<it.list[it.at]>>]
    ELSE [it |-> it, kind |-> StopIteration, value |-> <<>>]

IterInit ==
    /\ it_query = <<>>
    /\ mem_iter = Iter(<<>>)
    /\ file_iter = Iter(<<>>)
    /\ mem_got = <<>>
    /\ file_got = <<>>
    /\ it_outcome = [mem |-> "none", file |-> "none"]
    /\ matching_then = {}
    /\ stored_then = <<>>

\* iter(storage) or storage.filter_by_tags(*tags), on both backends
IterCall ==
    \E query \in Queries :
        \E mem_list \in MemList(query), file_list \in FileList(query) :
            /\ it_query' = <<query>>
            /\ mem_iter' = Iter(mem_list)
            /\ file_iter' = Iter(file_list)
            /\ mem_got' = <<>>
            /\ file_got' = <<>>
            /\ it_outcome' = [mem |-> "none", file |-> "none"]
            /\ matching_then' = IF query.op = "__iter__" THEN DOMAIN tagged
                           ELSE { a \in DOMAIN tagged :
                                    query.search_tags \subseteq tagged[a] }
            /\ stored_then' = <<>>
            /\ UNCHANGED storageVars
            /\ UNCHANGED outsideIter

\* next() on both iterators
IterNext ==
    LET mem == ListNext(mem_iter, MemIter)
        file == ListNext(file_iter, Elements(FileIter))
    IN  /\ it_query # <<>>
        /\ mem_iter' = mem.it
        /\ file_iter' = file.it
        /\ mem_got' = mem_got \o mem.value
        /\ file_got' = file_got \o file.value
        /\ it_outcome' = [mem |-> mem.kind, file |-> file.kind]
        /\ stored_then' = IF mem.kind = "yield" \/ file.kind = "yield"
                          THEN Append(stored_then, DOMAIN tagged)
                          ELSE stored_then
        /\ UNCHANGED <<it_query, matching_then>>
        /\ UNCHANGED storageVars
        /\ UNCHANGED outsideIter

-----------------------------------------------------------------------------
(* Specifications *)

vars == <<storageVars, rwVars, versionedVars, pipelineVars, assetVars, handleVars,
          iterVars>>

Init ==
    /\ StorageInit /\ RWInit /\ VersionedInit /\ PipelineInit /\ AssetInit
    /\ HandlesInit /\ IterInit

NextStorage == Add \/ Remove \/ Reopen

NextRW == RegisterProcessor \/ RegisterMetadataProcessor \/ Read \/ Write \/ WriteNew

NextVersioned == AdamStore \/ AdamDelete \/ AdamLookup \/ AdamAsk \/ AdamVersionsOf

NextPipeline == PipelineAdd \/ Process \/ PipelineNext

NextAsset == Construct \/ Assign \/ Layer

NextHandles == Enter \/ Leave \/ Fail

\* The consumer of the iterators and the callers of add and remove, in turn.
NextIter == Add \/ Remove \/ IterCall \/ IterNext

Next ==
    \/ NextStorage \/ NextRW \/ NextVersioned \/ NextPipeline \/ NextAsset
    \/ NextHandles \/ NextIter

\* Each part alone, and all of them.
SpecStorage == Init /\ [][NextStorage]_vars

SpecRW == Init /\ [][NextRW]_vars

SpecVersioned == Init /\ [][NextVersioned]_vars

SpecPipeline == Init /\ [][NextPipeline]_vars

SpecAsset == Init /\ [][NextAsset]_vars

SpecHandles == Init /\ [][NextHandles]_vars

SpecIter == Init /\ [][NextIter]_vars

Spec == Init /\ [][Next]_vars

-----------------------------------------------------------------------------
(* Properties of the storages *)

\* The tags an add stores for its tags argument.
Given(tags) == IF tags = <<>> THEN {} ELSE tags[1]

\* Whether a shelf holds an asset equal to asset, and whether a dict does.
OnShelf(assets, asset) == \E k \in DOMAIN assets : AssetEq(asset, assets[k][1])
InDict(dict, asset) == \E a \in DOMAIN dict : AssetEq(a, asset)

\* C1: in the FileStorage an identity assigned to a stored asset is never
\* assigned again to a different asset added later, even after the first was
\* removed and the FileStorage opened again on the same path.
C1_IdentityNeverReused ==
    \A p, q \in assigned : p[1] = q[1] => AssetEq(p[2], q[2])

\* C4: in the FileStorage, after add(A, tags) the storage contains A and
\* iterating it yields an asset equal to A exactly once, and no two
\* identities ever hold equal assets.
C4_AddedOnce ==
    /\ call.op = "add" =>
          /\ FileContains(call.asset)
          /\ Count(FileIter, call.asset) = 1
    /\ \A j, k \in DOMAIN shelf : AssetEq(shelf[j][1], shelf[k][1]) => j = k

\* An add of an asset that was added before, removed, and is stored again
\* under a later identity, beside another stored asset.
C4_Witness ==
    /\ call.op = "add"
    /\ Cardinality(DOMAIN shelf) = 2
    /\ \E p \in assigned :
          /\ AssetEq(p[2], call.asset)
          /\ str(p[1]) \notin FileMatches(call.asset)

\* C5: in both backends a remove of a contained asset succeeds and leaves it
\* not contained; a remove of an asset that is not contained fails with
\* ValueError and leaves the stored assets and their tags as they were.
C5_Remove ==
    [][ call'.op = "remove" =>
          /\ IF FileContains(call'.asset)
             THEN fileResult' = Ok /\ ~OnShelf(shelf', call'.asset)
             ELSE fileResult' = ValueError /\ shelf' = shelf
          /\ IF MemContains(call'.asset)
             THEN memResult' = Ok /\ ~InDict(tags_by_asset', call'.asset)
             ELSE memResult' = ValueError /\ tags_by_asset' = tags_by_asset
      ]_vars

\* A second remove of an asset has failed on both backends, which still hold
\* another asset.
C5_Witness ==
    /\ call.op = "remove"
    /\ fileResult = ValueError /\ memResult = ValueError
    /\ \E p \in assigned : AssetEq(p[2], call.asset)
    /\ DOMAIN shelf # {} /\ DOMAIN tags_by_asset # {}

\* C6: in both backends filter_by_tags(t1, ..., tn) returns exactly the
\* stored assets whose tags, as last given to add, include every ti; with no
\* tags that is every stored asset, also one added without tags.
C6_FilterByTags ==
    \A search_tags \in SUBSET Tags :
        LET expected == { a \in DOMAIN tagged : \A t \in search_tags : t \in tagged[a] }
        IN  /\ MemFilterByTags(search_tags) = expected
            /\ Elements(FileFilterByTags(search_tags)) = expected
            /\ \A a \in expected : Count(FileFilterByTags(search_tags), a) = 1

\* Two assets are stored, one added without tags and one with both tags: a
\* query for one tag returns only the second, the empty query both.
C6_Witness ==
    /\ \E a \in DOMAIN tagged : tagged[a] = {}
    /\ \E a \in DOMAIN tagged : tagged[a] = Tags
    /\ Cardinality(Elements(FileFilterByTags({"x"}))) = 1
    /\ Cardinality(Elements(FileFilterByTags({}))) = 2
    /\ Cardinality(MemFilterByTags({})) = 2

\* C7: add(A, tags) on a storage that holds an asset equal to A sets that
\* entry's tags and creates no second entry; the FileStorage keeps the entry's
\* identity and allocates none, and allocates one only when no equal asset
\* is stored.
C7_AddUpserts ==
    [][ call'.op = "add" =>
          LET A == call'.asset
              tags == Given(call'.tags)
          IN  /\ IF FileContains(A)
                 THEN /\ DOMAIN shelf' = DOMAIN shelf
                      /\ _asset_id_sequence' = _asset_id_sequence
                      /\ assigned' = assigned
                      /\ \A k \in DOMAIN shelf :
                            shelf'[k] = IF k \in FileMatches(A) THEN <<A, tags>>
                                        ELSE shelf[k]
                 ELSE /\ DOMAIN shelf' = DOMAIN shelf \cup {str(_asset_id_sequence)}
                      /\ str(_asset_id_sequence) \notin DOMAIN shelf
                      /\ _asset_id_sequence' = _asset_id_sequence + 1
                      /\ shelf'[str(_asset_id_sequence)] = <<A, tags>>
              /\ MemContains(A) => DOMAIN tags_by_asset' = DOMAIN tags_by_asset
              /\ \E a \in DOMAIN tags_by_asset' :
                    AssetEq(a, A) /\ tags_by_asset'[a] = tags
              /\ \A a \in DOMAIN tags_by_asset :
                    ~AssetEq(a, A) => tags_by_asset'[a] = tags_by_asset[a]
      ]_vars

\* An add has changed the tags of an asset stored under an identity that is
\* not the one allocated last.
C7_Witness ==
    /\ call.op = "add"
    /\ Cardinality(DOMAIN shelf) = 2
    /\ FileMatches(call.asset) # {}
    /\ str(_asset_id_sequence - 1) \notin FileMatches(call.asset)
    /\ \E k \in FileMatches(call.asset) : shelf[k][2] = {"x"}

\* C8: run side by side on the same adds and removes, the two backends agree
\* after every call on whether it failed, on contains for every asset, on the
\* assets iteration yields and on the assets every tag query returns.
C8_BackendsAgree ==
    /\ call.op \in {"add", "remove"} => memResult = fileResult
    /\ \A a \in StoreAssets : MemContains(a) <=> FileContains(a)
    /\ MemIter = Elements(FileIter)
    /\ \A search_tags \in SUBSET Tags :
          MemFilterByTags(search_tags) = Elements(FileFilterByTags(search_tags))

\* Both backends have just refused a remove while holding an asset whose
\* tags were replaced by a later add.
C8_Witness ==
    /\ call.op = "remove"
    /\ memResult = ValueError /\ fileResult = ValueError
    /\ \E a \in DOMAIN tags_by_asset : tags_by_asset[a] = {"y"}
    /\ _asset_id_sequence > 2

-----------------------------------------------------------------------------
(* Properties of read and write *)

\* The registered metadata formats.
Registered ==
    { metadata_processors_by_format[i] : i \in DOMAIN metadata_processors_by_format }

\* The registered metadata formats whose read succeeds on bytes.
Extractable(bytes) == { f \in Registered : MetadataRead(f, bytes) # <<>> }

\* bytes with the layer of every format in formats stripped.
StripAll(bytes, formats) ==
    [bytes EXCEPT !.layers =
        [f \in MetaFormats |-> IF f \in formats THEN Absent ELSE bytes.layers[f]]]

\* C2: the asset read returns for a stream a format processor matches has a
\* metadata mapping holding, at its top level, every field of the base asset
\* of the format processor (its mime_type too) and one entry, keyed by the
\* format, for each registered metadata format that was extracted, and no
\* other; its essence is the base essence with those formats stripped.
C2_ReadLayersMetadata ==
    rdStatus = "returned" =>
        LET base == ProcessorRead(processors[FindProcessor(rdFile).at], rdFile)
            extracted == Extractable(rdFile[1])
            asset == rdAsset[1]
        IN  /\ asset.essence_data = StripAll(base.essence_data, extracted)
            /\ DOMAIN asset.metadata = DOMAIN base.metadata \cup extracted
            /\ \A k \in DOMAIN base.metadata : asset.metadata[k] = base.metadata[k]
            /\ \A f \in extracted : asset.metadata[f] = MetadataRead(f, rdFile[1])[1]

\* C3: when the asset read returned for a stream S is written, reading a
\* registered metadata format that S carries from the written bytes yields
\* the metadata that format's read extracts from S.
C3_RoundTrip ==
    (written # <<>> /\ rdStatus = "returned") =>
        \A f \in Extractable(rdFile[1]) :
            MetadataRead(f, written[1]) = MetadataRead(f, rdFile[1])

\* C9: when no registered format processor's can_read accepts the stream,
\* read raises UnsupportedFormatError: it returns no asset and has called
\* nothing but can_read.
C9_UnsupportedFormat ==
    ( /\ rdStatus # "idle"
      /\ \A i \in DOMAIN processors : can_read(processors[i], rdFile) = "FALSE" )
    => /\ rdStatus = UnsupportedFormatError
       /\ rdAsset = <<>>
       /\ \A j \in DOMAIN rdCalls : rdCalls[j].op = "can_read"
       /\ Len(rdCalls) = Len(processors)

\* With both format processors and a metadata format registered, read has
\* refused bytes of no known kind that carry a layer of that format.
C9_Witness ==
    /\ rdStatus = UnsupportedFormatError
    /\ Len(processors) = 2
    /\ rdFile # NoFile
    /\ rdFile[1].kind = "unknown"
    /\ Extractable(rdFile[1]) # {}

\* C10: read called with None raises a TypeError, whatever format
\* processors are registered.
C10_NoneRaisesTypeError ==
    (rdStatus # "idle" /\ rdFile = NoFile) => rdStatus = TypeError

\* The registered metadata formats, in registration order, that meet Test.
FormatsWhere(Test(_)) == SelectSeq(metadata_processors_by_format, Test)

\* The asset that read's loop body makes of asset over the formats of the
\* sequence formats alone.
RECURSIVE LayerOnly(_, _, _)
LayerOnly(file, asset, formats) ==
    IF formats = <<>> THEN asset
    ELSE LayerOnly(file, LayerFormat(file, asset, Head(formats), <<>>).asset,
                   Tail(formats))

\* Whether a metadata mapping holds key, at its top or in the mappings
\* nested under "metadata".
RECURSIVE HasEntry(_, _)
HasEntry(metadata, key) ==
    \/ key \in DOMAIN metadata
    \/ "metadata" \in DOMAIN metadata /\ HasEntry(metadata["metadata"], key)

\* The calls of a log that meet Test.
CallsWhere(calls, Test(_)) == SelectSeq(calls, Test)

\* C11: when the extraction of a registered metadata format raises
\* UnsupportedFormatError, read still returns an asset; that format was
\* attempted, is not stripped and has no entry, every other registered format
\* is attempted and, where it succeeds, extracted: the asset is the one read
\* makes with the failing formats left out.
C11_FailedFormatSkipped ==
    (rdStatus # "idle" /\ FindProcessor(rdFile).status = "found") =>
        LET base == ProcessorRead(processors[FindProcessor(rdFile).at], rdFile)
            Succeeds(f) == f \in Extractable(rdFile[1])
            IsRead(c) == c.op = "read" /\ c.who \in MetaFormats
            IsStrip(c) == c.op = "strip"
            reads == CallsWhere(rdCalls, IsRead)
            strips == CallsWhere(rdCalls, IsStrip)
        IN  /\ rdStatus = "returned"
            /\ { reads[j].who : j \in DOMAIN reads } = Registered
            /\ { strips[j].who : j \in DOMAIN strips } = Extractable(rdFile[1])
            /\ \A f \in Registered \ Extractable(rdFile[1]) :
                  ~HasEntry(rdAsset[1].metadata, f)
            /\ \A f \in Extractable(rdFile[1]) : HasEntry(rdAsset[1].metadata, f)
            /\ rdAsset[1] = LayerOnly(rdFile, base, FormatsWhere(Succeeds))

\* Both formats are registered; the stream carries no layer of the first
\* and one of the second, which read has extracted.
C11_Witness ==
    /\ rdStatus = "returned"
    /\ Len(metadata_processors_by_format) = 2
    /\ MetadataRead(metadata_processors_by_format[1], rdFile[1]) = <<>>
    /\ MetadataRead(metadata_processors_by_format[2], rdFile[1]) # <<>>
    /\ HasEntry(rdAsset[1].metadata, metadata_processors_by_format[2])

\* C12: write puts out the asset's essence with combine applied, in
\* registration order and each to the result of the one before, for exactly
\* the registered metadata formats under whose key the asset's metadata holds
\* a value; with no such key the output is the essence itself.
C12_WriteCombines ==
    written # <<>> =>
        LET asset == wrAsset[1]
            Keyed(f) == f \in DOMAIN asset.metadata /\ asset.metadata[f] # None
            keyed == FormatsWhere(Keyed)
            Result(j) == MetadataCombine(wrCalls[j].who, wrCalls[j].on,
                                         wrCalls[j].metadata)
        IN  /\ Len(wrCalls) = Len(keyed)
            /\ \A j \in DOMAIN wrCalls :
                  /\ wrCalls[j].who = keyed[j]
                  /\ wrCalls[j].metadata = asset.metadata[keyed[j]]
                  /\ wrCalls[j].on = IF j = 1 THEN asset.essence_data ELSE Result(j - 1)
            /\ written[1] = IF keyed = <<>> THEN asset.essence_data
                            ELSE Result(Len(keyed))

\* An asset constructed with metadata of both registered formats, its
\* essence carrying another xmp layer, has been written with two combines.
C12_Witness ==
    /\ written # <<>>
    /\ rdStatus = "idle"
    /\ Len(wrCalls) = 2
    /\ wrAsset[1].essence_data.layers["xmp"] = "m1"
    /\ written[1].layers = [exif |-> "m1", xmp |-> "m2"]

\* C16: read probes can_read of the registered processors in registration
\* order up to the first that accepts the stream and calls read of that one
\* only; processors registered after it are not called, even if they would
\* accept.
C16_FirstMatchReads ==
    rdStatus = "returned" =>
        LET OfProcessor(c) == c.op \in {"can_read", "read"} /\ c.who \notin MetaFormats
            asked == CallsWhere(rdCalls, OfProcessor)
        IN  \E i \in DOMAIN processors :
              /\ can_read(processors[i], rdFile) = "TRUE"
              /\ \A j \in 1..(i - 1) : can_read(processors[j], rdFile) = "FALSE"
              /\ Len(asked) = i + 1
              /\ \A j \in 1..i : /\ asked[j].op = "can_read"
                                  /\ asked[j].who = processors[j].name
              /\ asked[i + 1].op = "read"
              /\ asked[i + 1].who = processors[i].name
              /\ \A j \in 1..(i + 1) : rdCalls[j] = asked[j]

\* Two processors are registered and both accept the stream read; the one
\* registered first has read it.
C16_Witness ==
    /\ rdStatus = "returned"
    /\ Len(processors) = 2
    /\ \A i \in DOMAIN processors : can_read(processors[i], rdFile) = "TRUE"
    /\ rdCalls[2].op = "read" /\ rdCalls[2].who = processors[1].name

\* C17: read goes through the metadata formats in registration order; each
\* format's metadata is read from the input file rewound to its start, and
\* each format's strip is applied to the asset's essence as the strips of the
\* formats extracted before it left it.
C17_StripsChain ==
    rdStatus = "returned" =>
        LET Succeeds(f) == f \in Extractable(rdFile[1])
            IsRead(c) == c.op = "read" /\ c.who \in MetaFormats
            IsStrip(c) == c.op = "strip"
            reads == CallsWhere(rdCalls, IsRead)
            strips == CallsWhere(rdCalls, IsStrip)
        IN  /\ [j \in DOMAIN reads |-> reads[j].who] = metadata_processors_by_format
            /\ \A j \in DOMAIN reads : reads[j].on = rdFile /\ reads[j].pos = "start"
            /\ [j \in DOMAIN strips |-> strips[j].who] = FormatsWhere(Succeeds)
            /\ \A j \in DOMAIN strips :
                  strips[j].on =
                      << StripAll(rdFile[1], { strips[k].who : k \in 1..(j - 1) }) >>
            /\ rdAsset[1].essence_data =
                  StripAll(rdFile[1], { strips[k].who : k \in DOMAIN strips })

\* Both formats are registered and carried by the stream: the second strip
\* was handed the essence without the first format's layer, not the stream.
C17_Witness ==
    /\ rdStatus = "returned"
    /\ Len(metadata_processors_by_format) = 2
    /\ Extractable(rdFile[1]) = MetaFormats
    /\ rdCalls[Len(rdCalls)].op = "strip"
    /\ rdCalls[Len(rdCalls)].on # rdFile
    /\ rdCalls[Len(rdCalls)].on[1].layers[metadata_processors_by_format[1]] = Absent

-----------------------------------------------------------------------------
(* Properties of the versioned storage *)

\* C13: versions_of(id) is the sequence of the snapshots stored under id since
\* id was last deleted, in the order stored; storage[id] is the last of them;
\* a delete of id leaves no version of id and id not contained.
C13_VersionsKept ==
    /\ \A id \in AdamIds :
          /\ versions_of(adam_assets, id).result = stored[id]
          /\ stored[id] # <<>> =>
                AdamGetItem(adam_assets, id).result = stored[id][Len(stored[id])]
    /\ adamCall.op = "delitem" =>
          /\ ~AdamContains(adam_assets, adamCall.id).result
          /\ stored[adamCall.id] = <<>>
    /\ (adamCall.op = "versions_of" /\ stored[adamCall.id] # <<>>) =>
          adamCall.result = <<stored[adamCall.id]>>

\* An id deleted before holds two different snapshots, stored one after
\* the other since.
C13_Witness ==
    /\ "a" \in erased
    /\ stored["a"] = <<"s1", "s2">>
    /\ adamCall = [op |-> "versions_of", id |-> "a", result |-> << <<"s1", "s2">> >>]

\* C20: the queries of the versioned storage leave its state as it is, so
\* an id is contained exactly when a snapshot has been stored under it since
\* its last delete.
C20_QueriesChangeNothing ==
    \A id \in AdamIds :
        AdamContains(adam_assets, id).result <=> stored[id] # <<>>

-----------------------------------------------------------------------------
(* Properties of Pipeline *)

\* on(...o2(o1(asset))...) for the operators o1..on of the sequence ops.
RECURSIVE Chain(_, _)
Chain(ops, asset) ==
    IF ops = <<>> THEN asset
    ELSE Apply(ops[Len(ops)], Chain(SubSeq(ops, 1, Len(ops) - 1), asset)).asset

\* Whether the sequence s is the start of the sequence t.
IsPrefix(s, t) == Len(s) <= Len(t) /\ s = SubSeq(t, 1, Len(s))

\* C14: a generator of process(a1, ..., an) in which no operator raised
\* yields one result per input, in input order, the k-th being the operators
\* added to the pipeline applied in the order added to ak (the operators are
\* those added by the time result k is requested); it ends after n results,
\* and with no operators the results are the inputs.
C14_ProcessYields ==
    (gen_state # "none" /\ failed = <<>>) =>
        /\ Len(yielded) = gen_at - 1
        /\ Len(yielded) <= Len(gen_assets)
        /\ gen_state = "finished" => Len(yielded) = Len(gen_assets)
        /\ outcome.kind = "StopIteration" => Len(yielded) = Len(gen_assets)
        /\ outcome.kind = "yield" => outcome.asset = yielded[Len(yielded)]
        /\ \A k \in DOMAIN yielded :
              /\ yielded[k] = Chain(seen[k], gen_assets[k])
              /\ IsPrefix(seen[k], operators)
              /\ seen[k] = <<>> => yielded[k] = gen_assets[k]

\* Two different operators were added before process was called with three
\* assets, and the generator has yielded all three and ended.
C14_Witness ==
    /\ operators = <<"crop", "flip">>
    /\ Len(gen_assets) = 3
    /\ gen_state = "finished"
    /\ failed = <<>>
    /\ \A k \in 1..3 : yielded[k] = [src |-> "b1", ops |-> <<"crop", "flip">>]
    /\ outcome.kind = "StopIteration"

\* C19: when an operator raises while the generator handles asset k, the
\* next() that asked for result k raises the operator's error; the results
\* of assets 1..k-1 were yielded before and stay as they were; the operators
\* after the failing one are not called on asset k; no operator is called on
\* a later asset and no further result is yielded.
C19_FailFast ==
    failed # <<>> =>
        LET f == failed[1]
            OnAsset(c) == c.k = f.k
            Later(c) == c.k > f.k
        IN  /\ Len(failed) = 1
            /\ gen_state = "finished"
            /\ f.error = OperatorError(f.operators[f.operator])
            /\ Raises(f.operators[f.operator],
                      Chain(SubSeq(f.operators, 1, f.operator - 1), gen_assets[f.k]))
            /\ outcome.kind \in {"error", "StopIteration"}
            /\ outcome.kind = "error" => outcome.error = f.error
            /\ Len(f.yielded) = f.k - 1
            /\ yielded = f.yielded
            /\ \A k \in DOMAIN yielded : yielded[k] = Chain(seen[k], gen_assets[k])
            /\ SelectSeq(applied, OnAsset) =
                  [i \in 1..f.operator |-> [k |-> f.k, operator |-> f.operators[i]]]
            /\ SelectSeq(applied, Later) = <<>>

\* The first of two operators raised on the second of three assets; the
\* consumer got one result before, the error at its second request and
\* StopIteration at its third.
C19_Witness ==
    /\ failed # <<>>
    /\ failed[1].k = 2 /\ failed[1].operator = 1
    /\ failed[1].operators = <<"crop", "flip">>
    /\ Len(gen_assets) = 3
    /\ Len(yielded) = 1
    /\ outcome.kind = "StopIteration"

-----------------------------------------------------------------------------
(* Properties of Asset *)

\* C15: the essence bytes and the metadata mapping of an Asset stay what its
\* construction made them, whatever is assigned to its attributes and
\* whatever read's layering makes of it.
C15_AssetNeverChanges ==
    constructed # <<>> =>
        /\ asset_dict.essence_data = constructed[1].essence_data
        /\ asset_dict.metadata = constructed[1].metadata

-----------------------------------------------------------------------------
(* Properties of the shelf handle *)

\* C18: a FileStorage operation holds a handle on the shelf only while it is
\* inside its with block; whichever way it returns or fails, remove's
\* ValueError included, no handle is open once it has ended, and never more
\* than one is open.
C18_HandleScoped ==
    /\ handles \in {0, 1}
    /\ inside = <<>> <=> handles = 0
    /\ left.op # "none" /\ inside = <<>> => handles = 0

\* remove has ended with ValueError for an asset the shelf does not hold,
\* and an add before it returned from inside its loop.
C18_Witness ==
    /\ left = [op |-> "remove", way |-> "end"]
    /\ fileResult = ValueError
    /\ shelf # <<>>
    /\ handles = 0

-----------------------------------------------------------------------------
(* Properties of the iterators *)

\* Whether a sequence holds no element twice.
NoRepeat(s) == \A i, j \in DOMAIN s : s[i] = s[j] => i = j

\* C21: the sequences __iter__ and filter_by_tags of both backends return
\* are snapshots of the call: with add and remove going on while they are
\* consumed, no next() fails, every element yielded is an asset that was
\* stored and matched when the call was made, none is yielded twice, and at
\* the end exactly those assets have been yielded.
C21_IterSnapshot ==
    it_query # <<>> =>
        /\ it_outcome.mem \in {"none", "yield", StopIteration}
        /\ it_outcome.file \in {"none", "yield", StopIteration}
        /\ Elements(mem_got) \subseteq matching_then /\ NoRepeat(mem_got)
        /\ Elements(file_got) \subseteq matching_then /\ NoRepeat(file_got)
        /\ it_outcome.mem = StopIteration => Elements(mem_got) = matching_then
        /\ it_outcome.file = StopIteration => Elements(file_got) = matching_then

\* filter_by_tags matched two assets; both were removed after the first was
\* yielded, an asset was added again after the second, and both iterators
\* have yielded the two and ended.
C21_Witness ==
    /\ it_query # <<>>
    /\ it_query[1].op = "filter_by_tags"
    /\ Cardinality(matching_then) = 2
    /\ Len(stored_then) = 2
    /\ stored_then[1] = matching_then
    /\ stored_then[2] = {}
    /\ DOMAIN tagged # {}
    /\ Len(mem_got) = 2 /\ Len(file_got) = 2
    /\ it_outcome = [mem |-> StopIteration, file |-> StopIteration]

=============================================================================
